---- MODULE Spec2Model ----
(***************************************************************************)
(* A model of principia, a checker for Hilbert-style proofs.               *)
(*                                                                         *)
(* python/principia.py is the driver: it reads top-level forms and calls   *)
(* the kernel (prover.checker: match, multisubst, infer, check) and the    *)
(* parser (prover.parser: symbol, term).  The driver and the datatypes are *)
(* translated from the source; the kernel and the parser are not in the    *)
(* source tree and follow the specification's sections 4.B, 4.D and 4.F.   *)
(*                                                                         *)
(* Not modelled: the `infix` and `bound` forms (no infix operator is       *)
(* registered and State.bound stays empty in the runs modelled; the        *)
(* kernel passes `bound` through unread), and the reader (sexpdata).       *)
(***************************************************************************)
EXTENDS Integers, Sequences, FiniteSets, TLC

VARIABLES state, stack, argi, status, out, form, log, call

vars == <<state, stack, argi, status, out, form, log, call>>

(***************************************************************************)
(* Bounds of the model.                                                    *)
(***************************************************************************)
\* Depth of the Python call stack left to macroexpand (the interpreter's
\* recursion limit, scaled down).
RecursionLimit == 5

\* Longest Symtree and longest list of definitions handed to the kernel calls.
MaxArity == 2

MaxDefs == 2

\* Longest State.variables, number of files on the command line, and depth
\* of nested includes.
MaxVars == 2

NumFiles == 2

MaxDepth == 2

(***************************************************************************)
(* prover/datatypes.py: Term = Lit | Var | Symtree | Hole.                 *)
(* Every term is a record of one shape so that terms compare structurally. *)
(***************************************************************************)
Lit(n) == [tag |-> "Lit", name |-> n, children |-> <<>>]

Var(n) == [tag |-> "Var", name |-> n, children |-> <<>>]

Symtree(cs) == [tag |-> "Symtree", name |-> "", children |-> cs]

Hole == [tag |-> "Hole", name |-> "", children |-> <<>>]

InferenceRule(premises, conclusion) ==
    [premises |-> premises, conclusion |-> conclusion]

\* The outcome of a call that raised RecursionError (not a Term).
Overflow == [tag |-> "RecursionError", name |-> "", children |-> <<>>]

\* The empty substitution {}.
NoSubst == [n \in {} |-> Hole]

(***************************************************************************)
(* prover.checker.multisubst (specification 4.B): one simultaneous pass.   *)
(***************************************************************************)
RECURSIVE multisubst(_, _)
multisubst(substs, tau) ==
    CASE tau.tag = "Var" ->
            IF tau.name \in DOMAIN substs THEN substs[tau.name] ELSE tau
      [] tau.tag = "Symtree" ->
            Symtree([i \in 1..Len(tau.children) |->
                        multisubst(substs, tau.children[i])])
      [] OTHER -> tau

(***************************************************************************)
(* prover.checker.match (specification 4.B).  The Python function mutates  *)
(* `substs` and returns a bool; here it returns both.  After a failure the *)
(* bindings made so far stay in `substs`.                                  *)
(***************************************************************************)
\* The same with the earlier binding replaced instead of compared.
matchBoundRebinds(substs, n, tau) ==
    [ok |-> TRUE, substs |-> (n :> tau) @@ substs]

\* A pattern variable already bound must be bound to the subject.
matchBound(substs, n, tau) == [ok |-> substs[n] = tau, substs |-> substs]

RECURSIVE match(_, _, _)
RECURSIVE matchChildren(_, _, _, _)
matchChildren(substs, ps, ss, i) ==
    IF i > Len(ps) THEN [ok |-> TRUE, substs |-> substs]
    ELSE LET r == match(substs, ps[i], ss[i])
         IN  IF r.ok THEN matchChildren(r.substs, ps, ss, i + 1) ELSE r

match(substs, patt, tau) ==
    CASE patt.tag = "Hole" -> [ok |-> TRUE, substs |-> substs]
      [] patt.tag = "Var" ->
            IF patt.name \in DOMAIN substs
            THEN matchBound(substs, patt.name, tau)
            ELSE [ok |-> TRUE, substs |-> (patt.name :> tau) @@ substs]
      [] patt.tag = "Lit" ->
            [ok |-> tau.tag = "Lit" /\ tau.name = patt.name, substs |-> substs]
      [] patt.tag = "Symtree" ->
            IF tau.tag = "Symtree" /\ Len(tau.children) = Len(patt.children)
            THEN matchChildren(substs, patt.children, tau.children, 1)
            ELSE [ok |-> FALSE, substs |-> substs]
      [] OTHER -> [ok |-> FALSE, substs |-> substs]

(***************************************************************************)
(* principia.py macroexpand: the first definition whose pattern matches    *)
(* rewrites the head once; then the children of the result are expanded.   *)
(* `depth` is the number of Python frames left; running out of them is     *)
(* RecursionError, which makes the whole call raise.                       *)
(***************************************************************************)
\* The same loop with the test inverted.
RECURSIVE firstMatchInverted(_, _, _)
firstMatchInverted(defs, tau, i) ==
    IF i > Len(defs) THEN tau
    ELSE LET r == match(NoSubst, defs[i][1], tau)
         IN  IF ~r.ok THEN multisubst(r.substs, defs[i][2])
             ELSE firstMatchInverted(defs, tau, i + 1)

\* for pattern, body in curr.defs: ... if match(substs, pattern, τ): break
RECURSIVE firstMatch(_, _, _)
firstMatch(defs, tau, i) ==
    IF i > Len(defs) THEN tau
    ELSE LET r == match(NoSubst, defs[i][1], tau)
         IN  IF r.ok THEN multisubst(r.substs, defs[i][2])
             ELSE firstMatch(defs, tau, i + 1)

rewriteHead(defs, tau) == firstMatch(defs, tau, 1)

\* Some definition's pattern matches tau at its outermost position.
headReducible(defs, tau) ==
    \E i \in 1..Len(defs) : match(NoSubst, defs[i][1], tau).ok

\* τ = Symtree(maplist(partial(macroexpand, curr), τ.children)); the call
\* raises when the expansion of a child does.
rebuilt(cs) ==
    IF \E i \in 1..Len(cs) : cs[i] = Overflow THEN Overflow ELSE Symtree(cs)

RECURSIVE macroexpandN(_, _, _)
RECURSIVE expandChildren(_, _, _)
expandChildren(defs, t1, depth) ==
    IF t1.tag = "Symtree"
    THEN rebuilt([i \in 1..Len(t1.children) |->
                     macroexpandN(defs, t1.children[i], depth - 1)])
    ELSE t1

macroexpandN(defs, tau, depth) ==
    IF depth = 0 THEN Overflow
    ELSE expandChildren(defs, rewriteHead(defs, tau), depth)

macroexpand(defs, tau) == macroexpandN(defs, tau, RecursionLimit)

(***************************************************************************)
(* What the reader (sexpdata) hands to the driver: Symbol, list, Bracket.  *)
(***************************************************************************)
Sym(n) == [tag |-> "Symbol", name |-> n, children |-> <<>>]

List(cs) == [tag |-> "list", name |-> "", children |-> cs]

Bracket(cs) == [tag |-> "Bracket", name |-> "", children |-> cs]

\* any(containsonly(ch, expr.value()) for ch in "─-"): runs of one of the
\* two separator characters ("=" stands for the box-drawing rule).
isseparator(expr) ==
    expr.tag = "Symbol" /\ expr.name \in {"-", "--", "=", "=="}

\* prover.parser.symbol: the name of a Symbol; anything else is malformed.
issymbol(expr) == expr.tag = "Symbol"

symbol(expr) == expr.name

\* prover.parser.term (specification 4.D) with no infix operator registered:
\* a name in State.variables is a Var, the underscore a Hole, any other atom
\* a Lit; a list is a Symtree of its lowered elements, in order.
RECURSIVE term(_, _)
term(curr, expr) ==
    IF expr.tag = "Symbol"
    THEN CASE expr.name = "_" -> Hole
           [] \E i \in 1..Len(curr.variables) : curr.variables[i] = expr.name
                -> Var(expr.name)
           [] OTHER -> Lit(expr.name)
    ELSE Symtree([i \in 1..Len(expr.children) |-> term(curr, expr.children[i])])

parseterm(curr, expr) == macroexpand(curr.defs, term(curr, expr))

Drop(s, n) == SubSeq(s, n + 1, Len(s))

SeqsUpTo(S, n) == UNION {[1..k -> S] : k \in 0..n}

(***************************************************************************)
(* principia.py postulate: groups `premises... separator name conclusion`. *)
(* Each handler returns the State it leaves, what it printed and the       *)
(* exception that left it ("none" when it returned).                       *)
(***************************************************************************)
Returned(curr, printed) == [state |-> curr, out |-> printed, raised |-> "none"]

Raised(curr, printed, ex) == [state |-> curr, out |-> printed, raised |-> ex]

\* The same with an existing entry overwritten.
declareOverwrites(context, name, rule) ==
    (name :> rule) @@ context

\* if name in curr.context: print(...) else: curr.context[name] = ...
declare(context, name, rule) ==
    IF name \in DOMAIN context THEN context ELSE (name :> rule) @@ context

RECURSIVE postulateLoop(_, _, _, _)
RECURSIVE postulateGroup(_, _, _, _, _, _)
RECURSIVE postulatePremise(_, _, _, _, _)
\* the branch `if isseparator(elem)`, with the name and the conclusion read
postulateGroup(curr, expr, premises, printed, name, conclusion) ==
    IF conclusion = Overflow THEN Raised(curr, printed, "RecursionError")
    ELSE postulateLoop(
           [curr EXCEPT !.context =
               declare(curr.context, name, InferenceRule(premises, conclusion))],
           Drop(expr, 3), <<>>,
           Append(printed, IF name \in DOMAIN curr.context
                           THEN <<"already postulated", name>>
                           ELSE <<"postulated", name>>))

\* the branch `else: premises.append(parseterm(curr, elem))`
postulatePremise(curr, expr, premises, printed, tau) ==
    IF tau = Overflow THEN Raised(curr, printed, "RecursionError")
    ELSE postulateLoop(curr, Tail(expr), Append(premises, tau), printed)

postulateLoop(curr, expr, premises, printed) ==
    IF expr = <<>>
    THEN IF premises # <<>>
         THEN Raised(curr, printed, "SyntaxError")
         ELSE Returned(curr, printed)
    ELSE IF isseparator(Head(expr))
    THEN IF Len(expr) < 3 THEN Raised(curr, printed, "IndexError")
         ELSE IF ~issymbol(expr[2]) THEN Raised(curr, printed, "SyntaxError")
         ELSE postulateGroup(curr, expr, premises, printed,
                             symbol(expr[2]), parseterm(curr, expr[3]))
    ELSE postulatePremise(curr, expr, premises, printed,
                          parseterm(curr, Head(expr)))

postulate(curr, expr) == postulateLoop(curr, expr, <<>>, <<>>)

(***************************************************************************)
(* prover/datatypes.py Argument = Sorry | Lemma, and Proof.                *)
(***************************************************************************)
Lemma(n) == [kind |-> "Lemma", name |-> n]

Sorry(n) == [kind |-> "Sorry", name |-> n]

Proof(edge, arguments, substitutions) ==
    [edge |-> edge, arguments |-> arguments, substitutions |-> substitutions]

NoProof == Proof("", <<>>, NoSubst)

separators == {":=", "=:"}

\* principia.py genenv: `var sep term` triples; dict() keeps the last
\* binding of a repeated key.
RECURSIVE genenv(_, _, _)
RECURSIVE genenvBind(_, _, _, _)
genenvBind(curr, it, substs, expr) ==
    IF expr = Overflow THEN [raised |-> "RecursionError", substs |-> substs]
    ELSE IF symbol(it[2]) \notin separators
    THEN [raised |-> "SyntaxError", substs |-> substs]
    ELSE genenv(curr, Drop(it, 3), (symbol(it[1]) :> expr) @@ substs)

genenv(curr, it, substs) ==
    IF it = <<>> THEN [raised |-> "none", substs |-> substs]
    ELSE IF ~issymbol(it[1]) \/ Len(it) < 3 \/ ~issymbol(it[2])
    THEN [raised |-> "SyntaxError", substs |-> substs]
    ELSE genenvBind(curr, it, substs, parseterm(curr, it[3]))

\* principia.py argument
argument(expr) ==
    IF expr.tag = "Symbol"
    THEN [raised |-> "none", arg |-> Lemma(symbol(expr))]
    ELSE IF Len(expr.children) # 2
    THEN [raised |-> "ValueError", arg |-> Lemma("")]
    ELSE IF expr.children[1] # Sym("sorry") \/ ~issymbol(expr.children[2])
    THEN [raised |-> "SyntaxError", arg |-> Lemma("")]
    ELSE [raised |-> "none", arg |-> Sorry(symbol(expr.children[2]))]

\* The exception of the first argument that raises, if any.
RECURSIVE firstRaised(_, _)
firstRaised(as, i) ==
    IF i > Len(as) THEN "none"
    ELSE IF as[i].raised # "none" THEN as[i].raised
    ELSE firstRaised(as, i + 1)

\* Proof(symbol(edge), maplist(argument, args), dict(genenv(curr, ...)))
proofBuilt(edge, as, env) ==
    IF ~issymbol(edge) THEN [raised |-> "SyntaxError", proof |-> NoProof]
    ELSE IF firstRaised(as, 1) # "none"
    THEN [raised |-> firstRaised(as, 1), proof |-> NoProof]
    ELSE IF env.raised # "none" THEN [raised |-> env.raised, proof |-> NoProof]
    ELSE [raised |-> "none",
          proof |-> Proof(symbol(edge),
                          [i \in 1..Len(as) |-> as[i].arg], env.substs)]

\* edge, *args = expr, with the Bracket, if it comes first, taken off args
proofParts(curr, edge, substs, args) ==
    proofBuilt(edge, [i \in 1..Len(args) |-> argument(args[i])],
               genenv(curr, substs, NoSubst))

\* principia.py proof
proof(curr, expr) ==
    IF expr.tag # "list" THEN [raised |-> "TypeError", proof |-> NoProof]
    ELSE IF expr.children = <<>> THEN [raised |-> "ValueError", proof |-> NoProof]
    ELSE IF Len(expr.children) > 1 /\ expr.children[2].tag = "Bracket"
    THEN proofParts(curr, expr.children[1], expr.children[2].children,
                    Drop(expr.children, 2))
    ELSE proofParts(curr, expr.children[1], <<>>, Tail(expr.children))

\* principia.py proofs: `name proof` pairs
RECURSIVE proofs(_, _, _)
RECURSIVE proofsNext(_, _, _, _)
proofsNext(curr, expr, res, body) ==
    IF body.raised # "none" THEN [raised |-> body.raised, proofs |-> res]
    ELSE proofs(curr, Drop(expr, 2), Append(res, <<symbol(expr[1]), body.proof>>))

proofs(curr, expr, res) ==
    IF expr = <<>> THEN [raised |-> "none", proofs |-> res]
    ELSE IF ~issymbol(expr[1]) THEN [raised |-> "SyntaxError", proofs |-> res]
    ELSE IF Len(expr) < 2 THEN [raised |-> "IndexError", proofs |-> res]
    ELSE proofsNext(curr, expr, res, proof(curr, expr[2]))

\* principia.py preamble: `separator name term` for each hypothesis and
\* for the theorem itself, then the proofs.
NoPreamble(ex) ==
    [raised |-> ex, name |-> "", conclusion |-> Hole, names |-> <<>>,
     premises |-> <<>>, proofs |-> <<>>]

Front(s) == SubSeq(s, 1, Len(s) - 1)

Last(s) == s[Len(s)]

\* name, conclusion = names.pop(), premises.pop(); return ..., proofs(...)
preambleDone(names, premises, ps) ==
    IF ps.raised # "none" THEN NoPreamble(ps.raised)
    ELSE [raised |-> "none",
          name |-> Last(names), conclusion |-> Last(premises),
          names |-> Front(names), premises |-> Front(premises),
          proofs |-> ps.proofs]

RECURSIVE preambleLoop(_, _, _, _, _)
RECURSIVE preamblePremise(_, _, _, _, _, _)
preamblePremise(curr, expr, names, premises, expected, tau) ==
    IF tau = Overflow THEN NoPreamble("RecursionError")
    ELSE preambleLoop(curr, Tail(expr), names, Append(premises, tau),
                      expected - 1)

preambleLoop(curr, expr, names, premises, expected) ==
    IF expr = <<>> THEN NoPreamble("IndexError")
    ELSE IF isseparator(Head(expr))
    THEN IF Len(expr) < 2 THEN NoPreamble("IndexError")
         ELSE IF ~issymbol(expr[2]) THEN NoPreamble("SyntaxError")
         ELSE preambleLoop(curr, Drop(expr, 2), Append(names, symbol(expr[2])),
                           premises, expected + 1)
    ELSE IF expected # 0
    THEN preamblePremise(curr, expr, names, premises, expected,
                         parseterm(curr, Head(expr)))
    ELSE IF names = <<>> THEN NoPreamble("IndexError")
    ELSE preambleDone(names, premises, proofs(curr, expr, <<>>))

preamble(curr, expr) == preambleLoop(curr, expr, <<>>, <<>>, 0)

(***************************************************************************)
(* prover.checker.infer and check (specification 4.F).  A failure is a     *)
(* VerificationError with a message.                                       *)
(***************************************************************************)
Inferred(tau) == [raised |-> "none", message |-> "", term |-> tau]

Failed(message) ==
    [raised |-> "VerificationError", message |-> message, term |-> Hole]

RECURSIVE infer(_, _)
RECURSIVE inferPremises(_, _, _, _, _)
RECURSIVE inferMatched(_, _, _, _, _)
RECURSIVE inferLemma(_, _, _, _, _, _)
\* match(σ, premise_template_i, actual_i) has been tried
inferMatched(ctx, rule, prf, m, i) ==
    IF ~m.ok THEN Failed("premise mismatch")
    ELSE inferPremises(ctx, rule, prf, m.substs, i + 1)

\* actual_i = infer(ctx, bound, Proof(name, [], {})) has been computed
inferLemma(ctx, rule, prf, sigma, i, actual) ==
    IF actual.raised # "none" THEN actual
    ELSE inferMatched(ctx, rule, prf,
                      match(sigma, rule.premises[i], actual.term), i)

inferPremises(ctx, rule, prf, sigma, i) ==
    IF i > Len(rule.premises)
    THEN Inferred(multisubst(sigma, rule.conclusion))
    ELSE IF prf.arguments[i].kind = "Sorry"
    THEN inferPremises(ctx, rule, prf, sigma, i + 1)
    ELSE inferLemma(ctx, rule, prf, sigma, i,
                    infer(ctx, Proof(prf.arguments[i].name, <<>>, NoSubst)))

infer(ctx, prf) ==
    IF prf.edge \notin DOMAIN ctx THEN Failed("unknown rule")
    ELSE IF Len(prf.arguments) # Len(ctx[prf.edge].premises)
    THEN Failed("arity mismatch")
    ELSE inferPremises(ctx, ctx[prf.edge], prf, prf.substitutions, 1)

\* derived = infer(...) compared with the stated conclusion
compare(expected, derived) ==
    IF derived.raised # "none" THEN derived
    ELSE IF derived.term # expected THEN Failed("conclusion mismatch")
    ELSE derived

check(ctx, expected, prf) == compare(expected, infer(ctx, prf))

(***************************************************************************)
(* principia.py theorem                                                    *)
(***************************************************************************)
\* τctx.update((name, InferenceRule([], τ)) for name, τ in zip(names, premises))
RECURSIVE withHypotheses(_, _, _, _)
withHypotheses(ctx, names, premises, i) ==
    IF i > Len(names) \/ i > Len(premises) THEN ctx
    ELSE withHypotheses((names[i] :> InferenceRule(<<>>, premises[i])) @@ ctx,
                        names, premises, i + 1)

\* The same without the copy: τctx is the global context itself.
theoremContextsAliased(context, names, premises) ==
    [global |-> withHypotheses(context, names, premises, 1),
     local |-> withHypotheses(context, names, premises, 1)]

\* τctx = curr.context.copy(); τctx.update(...): the hypotheses go to the copy.
theoremContexts(context, names, premises) ==
    [global |-> context,
     local |-> withHypotheses(context, names, premises, 1)]

\* for x, xs in proofs: τctx[x] = InferenceRule([], infer(τctx, curr.bound, xs))
\* check(τctx, curr.bound, conclusion, proof)
RECURSIVE verify(_, _, _, _, _)
RECURSIVE verifyLocal(_, _, _, _, _, _)
verifyLocal(tctx, locals, conclusion, final, i, r) ==
    IF r.raised # "none" THEN r
    ELSE verify((locals[i][1] :> InferenceRule(<<>>, r.term)) @@ tctx,
                locals, conclusion, final, i + 1)

verify(tctx, locals, conclusion, final, i) ==
    IF i > Len(locals) THEN check(tctx, conclusion, final)
    ELSE verifyLocal(tctx, locals, conclusion, final, i,
                     infer(tctx, locals[i][2]))

\* The same with the theorem recorded whatever the verdict.
admitUnchecked(context, name, premises, conclusion, verdict) ==
    (name :> InferenceRule(premises, conclusion)) @@ context

\* The same with the theorem recorded as a fact, its hypotheses dropped.
admitAsFact(context, name, premises, conclusion, verdict) ==
    IF verdict.raised = "none"
    THEN (name :> InferenceRule(<<>>, conclusion)) @@ context
    ELSE context

\* try: ...; curr.context[name] = InferenceRule(premises, conclusion)
\* except VerificationError: (the context is left alone)
admit(context, name, premises, conclusion, verdict) ==
    IF verdict.raised = "none"
    THEN (name :> InferenceRule(premises, conclusion)) @@ context
    ELSE context

\* the try block has run, with `verdict` what it raised
theoremVerified(curr, pre, global, verdict) ==
    Returned([curr EXCEPT !.context =
                 admit(global, pre.name, pre.premises, pre.conclusion, verdict)],
             IF verdict.raised = "none"
             THEN <<<<"checked", pre.name>>>>
             ELSE <<<<"has not been checked", pre.name>>,
                    <<"Error", verdict.message>>>>)

\* the contexts are built: `if name in curr.context: ... else: try: ...`
theoremChecked(curr, pre, ctxs) ==
    IF pre.name \in DOMAIN ctxs.global
    THEN Returned([curr EXCEPT !.context = ctxs.global],
                  <<<<"already defined", pre.name>>>>)
    ELSE theoremVerified(curr, pre, ctxs.global,
                         verify(ctxs.local, Front(pre.proofs), pre.conclusion,
                                Last(pre.proofs)[2], 1))

\* the preamble is parsed
theoremParsed(curr, pre) ==
    IF pre.raised # "none" THEN Raised(curr, <<>>, pre.raised)
    ELSE theoremChecked(curr, pre,
                        theoremContexts(curr.context, pre.names, pre.premises))

theorem(curr, expr) ==
    IF expr = <<>> THEN Returned(curr, <<>>)
    ELSE theoremParsed(curr, preamble(curr, expr))

\* principia.py variables
variables(curr, expr) ==
    IF \E i \in 1..Len(expr) : ~issymbol(expr[i])
    THEN Raised(curr, <<>>, "SyntaxError")
    ELSE Returned([curr EXCEPT !.variables =
                      @ \o [i \in 1..Len(expr) |-> symbol(expr[i])]], <<>>)

\* principia.py define: the pattern is parsed but not expanded.
defined(curr, pattern, body) ==
    IF body = Overflow THEN Raised(curr, <<>>, "RecursionError")
    ELSE Returned([curr EXCEPT !.defs = Append(@, <<pattern, body>>)], <<>>)

define(curr, expr) ==
    IF Len(expr) # 2 THEN Raised(curr, <<>>, "ValueError")
    ELSE defined(curr, term(curr, expr[1]), parseterm(curr, expr[2]))

(***************************************************************************)
(* prover/datatypes.py State, as constructed by State().                   *)
(***************************************************************************)
NoRules == [n \in {} |-> InferenceRule(<<>>, Hole)]

State0 == [variables |-> <<>>, context |-> NoRules, defs |-> <<>>]

NoForm == [head |-> "none", body |-> <<>>]

NoCall == [fn |-> "none", defs |-> <<>>, pattern |-> Hole, subject |-> Hole,
           done |-> FALSE, ok |-> FALSE, substs |-> NoSubst, result |-> Hole]

\* principia.py evaluate: dispatch on the head of the form.
evaluate(curr, f) ==
    CASE f.head = "postulate" -> postulate(curr, f.body)
      [] f.head \in {"theorem", "lemma"} -> theorem(curr, f.body)
      [] f.head = "variables" -> variables(curr, f.body)
      [] f.head = "define" -> define(curr, f.body)
      [] OTHER -> Raised(curr, <<>>, "AssertionError")

Form(head, body) == [head |-> head, body |-> body]

(***************************************************************************)
(* The run: `for filename in filenames: dopath(state, filename)`.          *)
(*   state   the State object                                              *)
(*   stack   the doexprs calls in progress, innermost last; `including`    *)
(*           counts the paths the include form being evaluated has still   *)
(*           to visit, `declared` the names the file's variables forms     *)
(*           have declared so far                                          *)
(*   argi    command-line files dopath has been called on                  *)
(*   status  "running", or "crashed" once an exception left the program    *)
(*   out     what the last step printed                                    *)
(*   form    the form the last step evaluated                              *)
(*   log     the forms evaluated so far (kept by SpecScenario only)        *)
(***************************************************************************)
Frame == [declared |-> <<>>, including |-> 0]

Top == stack[Len(stack)]

\* The same with every exception swallowed.
uncaughtSwallowed(raised) == "running"

\* No try/except between a handler and the top level: whatever a handler
\* lets out ends the program with a traceback.
uncaught(raised) == IF raised = "none" THEN "running" ELSE "crashed"

traceback(raised) ==
    IF raised = "none" THEN <<>> ELSE <<<<"Traceback", raised>>>>

Init ==
    /\ state = State0
    /\ stack = <<>>
    /\ argi = 0
    /\ status = "running"
    /\ out = <<>>
    /\ form = NoForm
    /\ log = <<>>
    /\ call = NoCall

PathKinds == {"missing", "directory", "file"}

\* principia.py dopath, dofile and the first line of doexprs.
dopath(kind, frames) ==
    /\ kind = "file" => Len(frames) < MaxDepth
    /\ stack' = IF kind = "file" THEN Append(frames, Frame) ELSE frames
    /\ state' = IF kind = "file" THEN [state EXCEPT !.variables = <<>>] ELSE state
    /\ out' = IF kind = "file" THEN <<<<"Checking", "path">>>>
              ELSE <<<<"Error", kind>>>>
    /\ form' = NoForm
    /\ UNCHANGED <<status, log, call>>

\* The next file of the command line.
NextFile ==
    /\ status = "running" /\ stack = <<>> /\ argi < NumFiles
    /\ argi' = argi + 1
    /\ \E kind \in PathKinds : dopath(kind, stack)

\* The next path of the include form being evaluated.
IncludePath ==
    /\ status = "running" /\ stack # <<>> /\ Top.including > 0
    /\ \E kind \in PathKinds :
          dopath(kind, [stack EXCEPT ![Len(stack)].including = @ - 1])
    /\ UNCHANGED argi

\* The for loop of doexprs has no form left: dofile and dopath return.
EndOfFile ==
    /\ status = "running" /\ stack # <<>> /\ Top.including = 0
    /\ stack' = Front(stack)
    /\ out' = <<>>
    /\ form' = NoForm
    /\ UNCHANGED <<state, argi, status, log, call>>

ready == status = "running" /\ stack # <<>> /\ Top.including = 0

\* The handler has returned or raised r.
Evaluated(f, r) ==
    /\ state' = r.state
    /\ out' = r.out \o traceback(r.raised)
    /\ status' = uncaught(r.raised)
    /\ stack' = IF f.head = "variables" /\ r.raised = "none"
                THEN [stack EXCEPT ![Len(stack)].declared =
                        @ \o [i \in 1..Len(f.body) |-> symbol(f.body[i])]]
                ELSE stack

\* evaluate(curr, expr) for one form of the file being read.
Evaluate(f) ==
    /\ ready
    /\ f.head = "variables" =>
          /\ Len(state.variables) + Len(f.body) <= MaxVars
          /\ Len(Top.declared) + Len(f.body) <= MaxVars
    /\ f.head = "define" => Len(state.defs) < MaxDefs
    /\ Evaluated(f, evaluate(state, f))
    /\ form' = f
    /\ UNCHANGED <<argi, call>>

\* principia.py include: dopath on each path in turn.
Include(f) ==
    /\ ready
    /\ f.head = "include"
    /\ stack' = [stack EXCEPT ![Len(stack)].including = Len(f.body)]
    /\ form' = f
    /\ out' = <<>>
    /\ UNCHANGED <<state, argi, status, log, call>>

(***************************************************************************)
(* The forms of Spec: one run over files without include forms.            *)
(***************************************************************************)
SEP == Sym("-")

A == Sym("A")

B == Sym("B")

phi == Sym("phi")

is == Sym(":=")

Postulates == {
    Form("postulate", <<SEP, A, A>>),
    Form("postulate", <<SEP, A, B>>),
    Form("postulate", <<phi, SEP, Sym("R"), phi>>),
    Form("postulate", <<SEP, A, A, SEP, Sym("Z"), A>>),
    Form("postulate", <<SEP, Sym("Z"), B, A>>) }

Theorems == {
    \* T : A by R applied to the fact A
    Form("theorem", <<SEP, Sym("T"), A, Sym("qed"), List(<<Sym("R"), A>>)>>),
    \* T : B by the fact A
    Form("theorem", <<SEP, Sym("T"), B, Sym("qed"), List(<<A>>)>>),
    \* T : A by R[phi := B] applied to the fact A
    Form("lemma", <<SEP, Sym("T"), A, Sym("qed"),
                    List(<<Sym("R"), Bracket(<<phi, is, B>>), A>>)>>),
    \* T : A with a local lemma citing a rule that does not exist
    Form("theorem", <<SEP, Sym("T"), A, Sym("x"), List(<<Sym("Nope")>>),
                      Sym("qed"), List(<<A>>)>>),
    \* C : A from the hypothesis h : A
    Form("theorem", <<SEP, Sym("h"), A, SEP, Sym("C"), A,
                      Sym("qed"), List(<<Sym("h")>>)>>),
    \* D : A by R applied to C
    Form("theorem", <<SEP, Sym("D"), A, Sym("qed"), List(<<Sym("R"), Sym("C")>>)>>),
    \* E : B from the hypothesis A : B, through the local lemma R
    Form("theorem", <<SEP, A, B, SEP, Sym("E"), B,
                      Sym("R"), List(<<A>>), Sym("qed"), List(<<Sym("R")>>)>>),
    \* a substitution list that maps phi to nothing
    Form("theorem", <<SEP, Sym("T"), A, Sym("qed"),
                      List(<<Sym("R"), Bracket(<<phi, is>>), A>>)>>) }

Declarations == {Form("variables", <<phi>>)}

Definitions == {Form("define", <<A, B>>)}

Postulate == \E f \in Postulates : Evaluate(f) /\ UNCHANGED log

Theorem == \E f \in Theorems : Evaluate(f) /\ UNCHANGED log

Variables == \E f \in Declarations : Evaluate(f) /\ UNCHANGED log

Define == \E f \in Definitions : Evaluate(f) /\ UNCHANGED log

Next ==
    \/ NextFile
    \/ EndOfFile
    \/ Postulate
    \/ Theorem
    \/ Variables
    \/ Define

Spec == Init /\ [][Next]_vars

(***************************************************************************)
(* Claims about the forms (Spec).                                          *)
(***************************************************************************)
printed(line) == \E i \in 1..Len(out) : out[i] = line

printedNext(line) == \E i \in 1..Len(out') : out'[i] = line

rejected == \E i \in 1..Len(out) : out[i][1] = "has not been checked"

rejectedNext == \E i \in 1..Len(out') : out'[i][1] = "has not been checked"

isTheorem(f) == f.head \in {"theorem", "lemma"}

added == DOMAIN state'.context \ DOMAIN state.context

\* The names a postulate form declares: each follows a separator and is
\* followed by its conclusion.
groupNames(body) ==
    {symbol(body[i + 1]) : i \in {j \in 1..(Len(body) - 2) : isseparator(body[j])}}

\* The context in which the proof after the first i local lemmas of
\* `locals` is inferred; NoRules marks a local proof that was not inferred.
RECURSIVE localsInferred(_, _, _)
localsInferred(tctx, locals, i) ==
    IF i = 0 THEN [ok |-> TRUE, ctx |-> tctx]
    ELSE LET before == localsInferred(tctx, locals, i - 1)
             r == infer(before.ctx, locals[i][2])
         IN  IF before.ok /\ r.raised = "none"
             THEN [ok |-> TRUE,
                   ctx |-> (locals[i][1] :> InferenceRule(<<>>, r.term)) @@ before.ctx]
             ELSE [ok |-> FALSE, ctx |-> tctx]

\* Form f states theorem n, each of its local proofs is inferred without
\* error, in order, and its final proof yields the stated conclusion.
proved(curr, f, n) ==
    LET pre == preamble(curr, f.body)
        hyp == withHypotheses(curr.context, pre.names, pre.premises, 1)
        loc == localsInferred(hyp, Front(pre.proofs), Len(pre.proofs) - 1)
        fin == infer(loc.ctx, Last(pre.proofs)[2])
    IN  /\ pre.raised = "none"
        /\ pre.name = n
        /\ loc.ok
        /\ fin.raised = "none"
        /\ fin.term = pre.conclusion

\* C1: every name that enters the global context is declared by the
\* postulate form just evaluated, or is the name of the theorem/lemma form
\* just evaluated, all of whose local proofs were inferred without error and
\* whose final proof yields the stated conclusion; a theorem rejected with a
\* verification error leaves the context as it was and the file goes on.
C1_OnlyPostulatedOrProved ==
    [][ /\ \A n \in added :
              \/ form'.head = "postulate" /\ n \in groupNames(form'.body)
              \/ isTheorem(form') /\ proved(state, form', n)
        /\ rejectedNext =>
              /\ state'.context = state.context
              /\ status' = "running"
              /\ stack' = stack ]_vars

\* A theorem has just been rejected for a premise mismatch, in a context
\* that holds postulates and a checked theorem.
C1_Witness ==
    /\ printed(<<"has not been checked", "T">>)
    /\ printed(<<"Error", "premise mismatch">>)
    /\ {"A", "R", "C"} \subseteq DOMAIN state.context
    /\ "T" \notin DOMAIN state.context

\* C2: no step removes a name from the global context or changes its rule;
\* a postulate form leaves every name it declares in the context, reporting
\* those that were there already, and a reused theorem name is reported;
\* the run goes on after either report (it stops only where the form is
\* malformed as well).
C2_ContextMonotone ==
    [][ /\ \A n \in DOMAIN state.context :
              /\ n \in DOMAIN state'.context
              /\ state'.context[n] = state.context[n]
        /\ form'.head = "postulate" =>
              /\ groupNames(form'.body) \subseteq DOMAIN state'.context
              /\ \A n \in groupNames(form'.body) \cap DOMAIN state.context :
                    printedNext(<<"already postulated", n>>)
        /\ \A i \in 1..Len(out') :
              out'[i][1] \in {"already postulated", "already defined"} =>
                 /\ out'[i][2] \in DOMAIN state.context
                 /\ status' = "running" \/ printedNext(<<"Traceback", "SyntaxError">>)
       ]_vars

\* A postulate form has just found A declared already, with conclusion B,
\* and declared Z after reporting it.
C2_Witness ==
    /\ out = <<<<"already postulated", "A">>, <<"postulated", "Z">>>>
    /\ state.context["A"].conclusion = Lit("B")
    /\ status = "running"

\* The names introduced inside a theorem form: hypotheses and local lemmas.
localNames(pre) ==
    {pre.names[i] : i \in 1..Len(pre.names)}
        \cup {pre.proofs[i][1] : i \in 1..(Len(pre.proofs) - 1)}

\* Proof prf has an argument Lemma(n) with n a rule of ctx that has premises.
citesRule(ctx, prf) ==
    \E i \in 1..Len(prf.arguments) :
        /\ prf.arguments[i].kind = "Lemma"
        /\ prf.arguments[i].name \in DOMAIN ctx
        /\ ctx[prf.arguments[i].name].premises # <<>>

ProofEdges == {"A", "R", "C"}

ProofArguments == {Lemma("A"), Lemma("R"), Lemma("C"), Sorry("s")}

ProofSubstitutions == {NoSubst, "phi" :> Lit("A")}

\* The largest number of premises of a rule of ctx.
mostPremises(ctx) ==
    LET sizes == {Len(ctx[n].premises) : n \in DOMAIN ctx} \cup {0}
    IN  CHOOSE k \in sizes : \A j \in sizes : j <= k

\* The proofs tried against ctx: every edge, up to one argument more than
\* any rule of ctx has premises (a longer list differs in no way from that
\* one: it fails the arity comparison as well).
CitedProofs(ctx) ==
    {Proof(e, as, su) : e \in ProofEdges,
                        as \in SeqsUpTo(ProofArguments, mostPremises(ctx) + 1),
                        su \in ProofSubstitutions}

\* C7: in every context, a proof with an argument Lemma(n), n a rule with
\* premises, is not inferred; a theorem form that cites such a rule of the
\* global context (not shadowed inside the form) is not admitted; and a
\* theorem admitted with hypotheses is stored with them as its premises.
C7_RulesAreNotFacts ==
    /\ [](\A prf \in CitedProofs(state.context) :
             citesRule(state.context, prf) =>
                infer(state.context, prf).raised = "VerificationError")
    /\ [][isTheorem(form') =>
            LET pre == preamble(state, form'.body)
            IN  /\ (/\ pre.raised = "none"
                    /\ \E i \in 1..Len(pre.proofs) :
                          /\ citesRule(state.context, pre.proofs[i][2])
                          /\ \A j \in 1..Len(pre.proofs[i][2].arguments) :
                                pre.proofs[i][2].arguments[j].name
                                    \notin localNames(pre))
                       => added = {}
                /\ \A n \in added :
                      state'.context[n] =
                          InferenceRule(pre.premises, pre.conclusion) ]_vars

\* D, which cites the theorem C, has just been rejected for the arity of
\* that citation; C was admitted with its hypothesis as a premise.
C7_Witness ==
    /\ printed(<<"has not been checked", "D">>)
    /\ printed(<<"Error", "arity mismatch">>)
    /\ "C" \in DOMAIN state.context
    /\ state.context["C"].premises = <<Lit("A")>>

\* C10: a theorem/lemma form adds at most its own name to the global
\* context and leaves every other entry as it was, whether it is admitted,
\* rejected or refused; hypotheses and local lemmas that shadow global
\* names do not change them.
C10_LocalNamesDoNotLeak ==
    [][isTheorem(form') =>
         /\ added \subseteq {preamble(state, form'.body).name}
         /\ \A n \in localNames(preamble(state, form'.body)) :
               /\ n \in DOMAIN state.context =>
                     /\ n \in DOMAIN state'.context
                     /\ state'.context[n] = state.context[n]
               /\ n \notin DOMAIN state.context
                     => n \notin DOMAIN state'.context \/ n \in added ]_vars

\* E has just been admitted; its hypothesis A and its local lemma R
\* shadowed the global A and R, which are as they were declared.
C10_Witness ==
    /\ out = <<<<"checked", "E">>>>
    /\ "A" \in DOMAIN state.context
    /\ state.context["A"] = InferenceRule(<<>>, Lit("A"))
    /\ "R" \in DOMAIN state.context
    /\ state.context["R"].premises # <<>>
    /\ "E" \in DOMAIN state.context

(***************************************************************************)
(* SpecFiles: the run over the files of the command line and the files     *)
(* they include, with a few forms of each kind.                            *)
(***************************************************************************)
FilePostulates == {
    Form("postulate", <<SEP, A, A>>),
    Form("postulate", <<SEP, Sym("Z"), B, A>>) }

FileTheorems == {
    Form("theorem", <<SEP, Sym("T"), B, Sym("qed"), List(<<A>>)>>),
    Form("theorem", <<SEP, Sym("T"), A, Sym("qed"),
                      List(<<A, Bracket(<<phi, is>>)>>)>>) }

FileDeclarations == {Form("variables", <<phi>>), Form("variables", <<Sym("x")>>)}

FileIncludes == {Form("include", <<Sym("lib")>>),
                 Form("include", <<Sym("lib"), Sym("more")>>)}

FilePostulate == \E f \in FilePostulates : Evaluate(f) /\ UNCHANGED log

FileTheorem == \E f \in FileTheorems : Evaluate(f) /\ UNCHANGED log

FileVariables == \E f \in FileDeclarations : Evaluate(f) /\ UNCHANGED log

FileInclude == \E f \in FileIncludes : Include(f)

NextFiles ==
    \/ NextFile
    \/ IncludePath
    \/ EndOfFile
    \/ FilePostulate
    \/ FileTheorem
    \/ FileVariables
    \/ FileInclude

SpecFiles == Init /\ [][NextFiles]_vars

\* C8 as stated: while the forms of a file are evaluated, also after an
\* include form of that file has returned, State.variables is the sequence
\* of the names that the variables forms of that file have declared so far.
C8_VariablesAreFileScoped ==
    (status = "running" /\ stack # <<>>) => state.variables = Top.declared

crashedWith == \E i \in 1..Len(out) : out[i][1] = "Traceback"

MaxLog == 5

psi == Sym("psi")

X == Sym("X")

imp(a, b) == List(<<Sym("=>"), a, b>>)

declarePhiPsi == Form("variables", <<phi, psi>>)

postulateMP == Form("postulate", <<phi, psi, SEP, Sym("MP"), imp(phi, psi)>>)

postulateA == Form("postulate", <<SEP, A, A>>)

postulateAimpB == Form("postulate", <<SEP, Sym("AimpB"), imp(A, B)>>)

theoremB ==
    Form("theorem", <<SEP, B, B, Sym("qed"),
                      List(<<Sym("MP"), Bracket(<<phi, is, A, psi, is, B>>),
                             Sym("AimpB"), A>>)>>)

postulateR == Form("postulate", <<phi, SEP, Sym("R"), phi>>)

sorry == List(<<Sym("sorry"), Sym("hole1")>>)

theoremS == Form("theorem", <<SEP, Sym("S"), X, Sym("qed"), List(<<Sym("R"), sorry>>)>>)

theoremSExplicit ==
    Form("theorem", <<SEP, Sym("S"), X, Sym("qed"),
                      List(<<Sym("R"), Bracket(<<phi, is, X>>), sorry>>)>>)

theoremT ==
    Form("theorem", <<SEP, Sym("T"), X, Sym("qed"), List(<<Sym("R"), Sym("S")>>)>>)

ScenarioForms ==
    {declarePhiPsi, postulateMP, postulateA, postulateAimpB, theoremB,
     postulateR, theoremS, theoremSExplicit, theoremT}

ScenarioForm ==
    \E f \in ScenarioForms :
        /\ Len(log) < MaxLog
        /\ \A i \in 1..Len(log) : log[i] # f
        /\ Evaluate(f)
        /\ log' = Append(log, f)

NextScenario == NextFile \/ ScenarioForm

SpecScenario == Init /\ [][NextScenario]_vars

names == DOMAIN state.context

modusPonens == <<postulateMP, postulateA, postulateAimpB, theoremB>>

\* C5 as stated: after the three postulates and theorem B, in that order and
\* from an empty context (phi and psi declared variables or not), all four
\* forms have succeeded and the context holds exactly MP, A, AimpB and B.
C5_ModusPonensAdmitted ==
    (log = modusPonens \/ log = <<declarePhiPsi>> \o modusPonens)
        => (names = {"MP", "A", "AimpB", "B"} /\ printed(<<"checked", "B">>))

\* C5 amended: after the same forms the three postulates have succeeded,
\* theorem B is rejected with a premise mismatch (the first premise phi of MP
\* does not match the conclusion (=> A B) of AimpB), and the context holds
\* exactly MP, A and AimpB.
C5_ModusPonensRejected ==
    /\ (log = SubSeq(modusPonens, 1, 3)
            \/ log = <<declarePhiPsi>> \o SubSeq(modusPonens, 1, 3))
          => (names = {"MP", "A", "AimpB"} /\ printed(<<"postulated", "AimpB">>))
    /\ (log = modusPonens \/ log = <<declarePhiPsi>> \o modusPonens)
          => /\ names = {"MP", "A", "AimpB"}
             /\ printed(<<"has not been checked", "B">>)
             /\ printed(<<"Error", "premise mismatch">>)
             /\ status = "running"

\* The scenario has run to its end with phi and psi declared variables.
C5_Witness ==
    /\ log = <<declarePhiPsi>> \o modusPonens
    /\ state.context["MP"] =
          InferenceRule(<<Var("phi"), Var("psi")>>,
                        Symtree(<<Lit("=>"), Var("phi"), Var("psi")>>))
    /\ rejected

\* C6 as stated: with R in the context, theorem S (stated X, proof R applied
\* to a Sorry, no explicit substitution) is admitted, and so is a later
\* theorem that cites S.
C6_SorryAdmitted ==
    /\ (log = <<postulateR, theoremS>>
            \/ log = <<declarePhiPsi, postulateR, theoremS>>)
          => "S" \in names
    /\ log = <<declarePhiPsi, postulateR, theoremS, theoremT>> => "T" \in names

\* C6 amended: with R in the context, phi a declared variable, a Sorry
\* argument is accepted without extending the substitution, so that R
\* applied to it yields phi under no explicit substitution and X under
\* [phi := X]; theorem S stated X is admitted with the proof R[phi := X]
\* (sorry), and a later theorem that cites S is accepted; with no explicit
\* substitution S is rejected with a conclusion mismatch.
C6_SorryNeedsSubstitution ==
    /\ log = <<declarePhiPsi, postulateR>> =>
          /\ infer(state.context, Proof("R", <<Sorry("hole1")>>, NoSubst))
                = Inferred(Var("phi"))
          /\ infer(state.context,
                   Proof("R", <<Sorry("hole1")>>, "phi" :> Lit("X")))
                = Inferred(Lit("X"))
    /\ log = <<declarePhiPsi, postulateR, theoremSExplicit>> =>
          /\ printed(<<"checked", "S">>)
          /\ names = {"R", "S"}
          /\ state.context["S"] = InferenceRule(<<>>, Lit("X"))
    /\ log = <<declarePhiPsi, postulateR, theoremSExplicit, theoremT>> =>
          /\ printed(<<"checked", "T">>)
          /\ names = {"R", "S", "T"}
    /\ (log = <<postulateR, theoremS>>
            \/ log = <<declarePhiPsi, postulateR, theoremS>>) =>
          /\ printed(<<"has not been checked", "S">>)
          /\ printed(<<"Error", "conclusion mismatch">>)
          /\ names = {"R"}

\* S was admitted through a Sorry and T, which cites S, after it.
C6_Witness ==
    /\ log = <<declarePhiPsi, postulateR, theoremSExplicit, theoremT>>
    /\ {"S", "T"} \subseteq names
    /\ status = "running"

(***************************************************************************)
(* The kernel calls on their own: match and macroexpand applied to inputs  *)
(* drawn from a bounded universe of terms and definitions.                 *)
(***************************************************************************)
Atoms == {Lit("a"), Lit("b"), Var("x"), Var("y"), Hole}

Terms == Atoms \cup {Symtree(cs) : cs \in SeqsUpTo(Atoms, MaxArity) \ {<<>>}}

DefPatterns == {Lit("a"), Var("x"), Symtree(<<Lit("b")>>)}

DefBodies == {Lit("b"), Symtree(<<Var("x")>>)}

DefLists == SeqsUpTo(DefPatterns \X DefBodies, MaxDefs)

KernelCalls ==
    {[NoCall EXCEPT !.fn = "match", !.pattern = p, !.subject = s] :
        p \in Terms, s \in Terms}
    \cup
    {[NoCall EXCEPT !.fn = "macroexpand", !.defs = d, !.subject = t] :
        d \in DefLists, t \in Terms}

InitKernel ==
    /\ call \in KernelCalls
    /\ state = State0
    /\ stack = <<>>
    /\ argi = 0
    /\ status = "running"
    /\ out = <<>>
    /\ form = NoForm
    /\ log = <<>>

CallMatch ==
    /\ call.fn = "match" /\ ~call.done
    /\ LET r == match(NoSubst, call.pattern, call.subject)
       IN  call' = [call EXCEPT !.done = TRUE, !.ok = r.ok, !.substs = r.substs]
    /\ UNCHANGED <<state, stack, argi, status, out, form, log>>

CallMacroexpand ==
    /\ call.fn = "macroexpand" /\ ~call.done
    /\ call' = [call EXCEPT !.done = TRUE,
                            !.result = macroexpand(call.defs, call.subject)]
    /\ UNCHANGED <<state, stack, argi, status, out, form, log>>

NextKernel == CallMatch \/ CallMacroexpand

SpecKernel == InitKernel /\ [][NextKernel]_vars

(***************************************************************************)
(* C3 -- match soundness.                                                  *)
(***************************************************************************)
RECURSIVE holeFree(_)
holeFree(tau) ==
    /\ tau.tag # "Hole"
    /\ \A i \in 1..Len(tau.children) : holeFree(tau.children[i])

matched == call.fn = "match" /\ call.done /\ call.ok

\* C3 as stated: whenever match from the empty substitution succeeds on a
\* pattern and a subject over Lit, Var, Symtree and Hole, applying the
\* substitution it yields to the pattern gives the subject.
C3_MatchSoundAnyPattern ==
    matched => multisubst(call.substs, call.pattern) = call.subject

\* C3 amended: the same for every pattern that contains no Hole.
C3_MatchSoundHoleFree ==
    (matched /\ holeFree(call.pattern))
        => multisubst(call.substs, call.pattern) = call.subject

\* A successful match of a composite pattern that binds two variables, one
\* of them to a term that itself holds the other variable.
C3_Witness ==
    /\ matched
    /\ call.pattern = Symtree(<<Var("x"), Var("y")>>)
    /\ call.subject = Symtree(<<Var("y"), Lit("a")>>)
    /\ DOMAIN call.substs = {"x", "y"}

(***************************************************************************)
(* C4 -- head-irreducibility of an expanded term.                          *)
(***************************************************************************)
expanded == call.fn = "macroexpand" /\ call.done /\ call.result # Overflow

\* Every child of tau is left as it is by macroexpand.
childrenFixed(defs, tau) ==
    \A i \in 1..Len(tau.children) :
        macroexpand(defs, tau.children[i]) = tau.children[i]

\* C4 as stated: the result of macroexpand is matched by no pattern of defs
\* at its outermost position.
C4_ResultNotHeadReducible ==
    expanded => ~headReducible(call.defs, call.result)

\* C4 amended: a term that no pattern matches at its outermost position and
\* whose children macroexpand leaves alone is returned unchanged, and so is
\* not head-reducible.
C4_IrreducibleUnchanged ==
    (expanded /\ ~headReducible(call.defs, call.subject)
              /\ childrenFixed(call.defs, call.subject))
        => /\ call.result = call.subject
           /\ ~headReducible(call.defs, call.result)

\* A composite term expanded under a non-empty list of definitions none of
\* which applies to it.
C4_Witness ==
    /\ expanded
    /\ Len(call.defs) = 2
    /\ call.subject.tag = "Symtree"
    /\ ~headReducible(call.defs, call.subject)
    /\ childrenFixed(call.defs, call.subject)
    /\ call.result = call.subject

====
